---- MODULE Spec2Model ----
(***************************************************************************)
(* Vertical layout and port allocation of pyAlluv's AlluvialPlot.          *)
(*                                                                         *)
(* Arithmetic.  The program computes with floats; the model computes with  *)
(* exact numbers.  Every vertical coordinate the program stores between    *)
(* two layout steps is an integer multiple of 1/2 when block heights, the  *)
(* spacing, flux widths and y_offset are integers, so y_pos, mid_height,   *)
(* margins and anchors are kept DOUBLED: y[c] = 2 * c.y_pos.  The only     *)
(* values that are not half-integers are the flux-weighted means handed to *)
(* set_mid_height; they are kept as fractions <<numerator, denominator>>   *)
(* of doubled values (variable cand) and are always overwritten by the     *)
(* re-stacking that ends the same pass.                                    *)
(* Horizontal coordinates are multiples of 1/6 when the column keys and    *)
(* the cluster widths are integers (half a width, two thirds of a gap),    *)
(* so they are kept SIXFOLD: x_pos[c] = <<6 * c.x_pos>>.                    *)
(***************************************************************************)
EXTENDS Integers, Sequences, FiniteSets, TLC

VARIABLES
    height,         \* Cluster.height, per cluster
    fluxes,         \* the Flux objects: [source_cluster, target_cluster, flux_width]
    clusters,       \* AlluvialPlot.clusters: per column the list of clusters
    spacing,        \* AlluvialPlot.cluster_w_spacing
    y_offset,       \* AlluvialPlot.y_offset (doubled)
    y_fix,          \* AlluvialPlot.y_fix: sequence of overrides [x, st]
    y,              \* Cluster.y_pos (doubled)
    in_fluxes,      \* Cluster.in_fluxes: list of flux ids
    out_fluxes,     \* Cluster.out_fluxes: list of flux ids
    in_loc,         \* Flux.in_loc: "unset" (no attribute), "none", "top", "bottom"
    out_loc,        \* Flux.out_loc
    in_margin,      \* Cluster.in_margin: [top, bottom] (doubled)
    out_margin,     \* Cluster.out_margin
    band,           \* Flux.anchor_out, top_out, anchor_in, top_in: <<>> or <<2*y>>
    pc,             \* position in AlluvialPlot.__init__ / get_patchcollection
    xi,             \* index into x_positions of the column being processed
    round,          \* the `_` of the running loop
    idx,            \* the `i` of the running swap loop, or the cluster index
    redistribute,   \* the local _redistribute of distribute_clusters
    cand,           \* mid_height handed to set_mid_height in the last pass, as a fraction
    calls,          \* number of get_patchcollection calls started
    module,         \* the module whose AlluvialPlot is constructed, "" before
    y_pos,          \* the constructor's argument y_pos
    y_min,          \* AlluvialPlot.y_min: <<>> (None) or <<2 * y_min>>
    y_max,          \* AlluvialPlot.y_max
    in_,            \* Cluster.in_ and Cluster.out_ are set: FALSE for None
    width,          \* Cluster.width, per cluster
    x_anchor,       \* Cluster.x_anchor: "left", "center", "right"
    x_pos,          \* Cluster.x_pos: <<>> (None) or <<6 * x_pos>>
    flux_patches,   \* per flux the vertices of the patch of the last
                    \* PatchCollection returned: <<>> or 13 pairs <<6 * x, 2 * y>>
    axes            \* the constructor was handed an axes object

vars == <<height, fluxes, clusters, spacing, y_offset, y_fix, y, in_fluxes,
          out_fluxes, in_loc, out_loc, in_margin, out_margin, band, pc,
          xi, round, idx, redistribute, cand, calls, module, y_pos, y_min,
          y_max, in_, width, x_anchor, x_pos, flux_patches, axes>>

(***************************************************************************)
(* Bounds of the model and constants of the program.                       *)
(***************************************************************************)
\* the sum of the heights of all clusters of a diagram is at most this
MaxTotalHeight == 6
\* the sum of the widths of all fluxes of a diagram is at most this
MaxTotalFlux == 2
\* get_patchcollection is called at most this often (once by __init__)
MaxPatchCalls == 2
\* cluster_w_spacing is at most this
MaxSpacing == 2
\* a column on its own has at most this many clusters
MaxColumn == 4
\* a target of a fan-out has at most this height
MaxFan == 6
\* a cluster is at most this wide
MaxWidth == 2
\* the horizontal position handed to a cluster on its own is at most this
\* far from 0
MaxAnchor == 2
\* y_offset is at most this far from 0
MaxYOffset == 1
\* kwargs.get('redistribute_vertically', 4)
RedistributeVertically == 4
\* default of cluster_w_spacing
DefaultSpacing == 1
\* the sort key of a flux without counterpart in sort_out_fluxes / sort_in_fluxes
NoCounterpartKey == -10000
\* source_cluster=None, target_cluster=None: the absent endpoint
None == 0

(***************************************************************************)
(* Python's list operations.                                               *)
(***************************************************************************)
RECURSIVE SeqSum(_)
SeqSum(s) == IF s = <<>> THEN 0 ELSE Head(s) + SeqSum(Tail(s))

Range(s) == {s[i] : i \in DOMAIN s}

\* s[::-1]
Reverse(s) == [i \in 1..Len(s) |-> s[Len(s) + 1 - i]]

\* s[::-2]: the last element, then every second one towards the front
SliceBackBy2(s) == [k \in 1..((Len(s) + 1) \div 2) |-> s[Len(s) - 2 * (k - 1)]]

\* s[start::2]
SliceFromBy2(s, start) ==
    [k \in 1..((Len(s) - start + 1) \div 2) |-> s[start + 2 * k - 1]]

\* sorted(s, key=...): stable, ascending; key is a function on the elements
RECURSIVE Sorted(_, _)
Sorted(s, key) ==
    IF s = <<>> THEN <<>>
    ELSE LET front == Sorted(SubSeq(s, 1, Len(s) - 1), key)
             x == s[Len(s)]
             p == Cardinality({i \in 1..Len(front) : key[front[i]] <= key[x]})
         IN  SubSeq(front, 1, p) \o <<x>> \o SubSeq(front, p + 1, Len(front))

\* sorted(s, key=..., reverse=True): stable, descending
RECURSIVE SortedReverse(_, _)
SortedReverse(s, key) ==
    IF s = <<>> THEN <<>>
    ELSE LET front == SortedReverse(SubSeq(s, 1, Len(s) - 1), key)
             x == s[Len(s)]
             p == Cardinality({i \in 1..Len(front) : key[front[i]] >= key[x]})
         IN  SubSeq(front, 1, p) \o <<x>> \o SubSeq(front, p + 1, Len(front))

\* bisect.bisect_left(a, x) for x = num/den (den > 0): the binary search of
\* the standard library, lo = 0, hi = len(a)
RECURSIVE BisectLoop(_, _, _, _, _)
BisectLoop(a, num, den, lo, hi) ==
    IF lo < hi
    THEN LET mid == (lo + hi) \div 2
         IN  IF a[mid + 1] * den < num
             THEN BisectLoop(a, num, den, mid + 1, hi)
             ELSE BisectLoop(a, num, den, lo, mid)
    ELSE lo

bisect_left(a, x) == BisectLoop(a, x[1], x[2], 0, Len(a))

Abs(n) == IF n < 0 THEN -n ELSE n

\* min and max of a non-empty collection
Min(S) == CHOOSE m \in S : \A n \in S : m <= n

Max(S) == CHOOSE m \in S : \A n \in S : m >= n

\* two lists without repetitions hold the same elements
IsPermutation(a, b) ==
    /\ Len(a) = Len(b)
    /\ Range(a) = Range(b)
    /\ Cardinality(Range(a)) = Len(a)

(***************************************************************************)
(* The diagram: clusters, fluxes and the derived quantities.               *)
(***************************************************************************)
\* the column layouts of the diagrams built: clusters per x position
Shapes ==
    {<<3, 2>>, <<1, 1, 1>>, <<2, 1>>, <<1, 1>>, <<3>>, <<1, 0, 1>>, <<0>>}
\* diagrams of these layouts also get fluxes with one endpoint absent
OneSidedShapes == {<<1, 1>>}
\* diagrams of these layouts are also laid out with a y_fix override
FixShapes == {<<3>>}
\* diagrams of these layouts are also drawn with a y_offset
OffsetShapes == {<<1, 2>>}
\* diagrams of these layouts are laid out with the default spacing only
DefaultSpacingShapes ==
    {<<3, 2>>, <<1, 1, 1>>, <<1, 1>>, <<3>>, <<1, 0, 1>>, <<0>>}
\* diagrams of these layouts also have clusters of height 0
ZeroHeightShapes == {<<3>>, <<1, 1>>}
\* diagrams of these layouts are also constructed with y_pos other than
\* 'overwrite'
KeepShapes == {<<1, 1>>}
\* diagrams of these layouts are also constructed by alluvialdiagram.py
LegacyShapes == {<<1, 0, 1>>}
\* diagrams of these layouts are also constructed without an axes object
NoAxesShapes == {<<1, 1>>}

Ids == DOMAIN height
FluxIds == DOMAIN fluxes
Columns == DOMAIN clusters

\* the column a cluster is listed in
ColumnOf(c) == CHOOSE k \in Columns : c \in Range(clusters[k])

Shape == [k \in Columns |-> Len(clusters[k])]

\* list.index
IndexOf(s, e) == CHOOSE i \in DOMAIN s : s[i] = e

\* Cluster.label: every cluster carries its own distinct label
label(c) == c

\* Cluster.mid_height as set_y_pos keeps it: y_pos + 0.5 * height (doubled)
MidOf(yy, c) == yy[c] + height[c]

mid_height(c) == MidOf(y, c)

\* Cluster.in_['top'][1] = out_['top'][1] and in_['bottom'][1] = out_['bottom'][1]
EdgeOf(yy, c, loc) == IF loc = "top" THEN yy[c] + 2 * height[c] ELSE yy[c]

flux_width(f) == fluxes[f].flux_width

(***************************************************************************)
(* Cluster.set_x_pos                                                       *)
(***************************************************************************)
\* a set_x_pos that does not undo the centring for x_anchor 'left'
SetXPosNoLeft(w, anchor, x) ==
    LET centred == 6 * x - 3 * w
    IN  IF anchor = "right" THEN centred - 3 * w ELSE centred

\* clusters.py, lines 115-122: x_pos -= 0.5 * width, then += 0.5 * width
\* for 'left' and -= 0.5 * width for 'right' (sixfold); x is not None
SetXPos(w, anchor, x) ==
    LET centred == 6 * x - 3 * w
    IN  IF anchor = "left" THEN centred + 3 * w
        ELSE IF anchor = "right" THEN centred - 3 * w
        ELSE centred

\* the x_pos of all clusters after the constructor's loop over the
\* columns: plotting.py calls cluster.set_x_pos(x_pos) with the key of the
\* column (its index here), alluvialdiagram.py assigns node.x_pos = x_pos
SetColumnXPos(m) ==
    [c \in DOMAIN x_pos |->
        IF \E k \in DOMAIN clusters : c \in Range(clusters[k])
        THEN LET k == CHOOSE k \in DOMAIN clusters : c \in Range(clusters[k])
             IN  IF m = "plotting" THEN <<SetXPos(width[c], x_anchor[c], k)>>
                 ELSE <<6 * k>>
        ELSE x_pos[c]]

\* Cluster.in_[loc][0] and Cluster.out_[loc][0]: the left and the right edge
LeftEdge(c) == x_pos[c][1]

RightEdge(c) == x_pos[c][1] + 6 * width[c]

(***************************************************************************)
(* Flux.__init__                                                           *)
(***************************************************************************)
\* the endpoints a new flux may be given in this diagram
Endpoints ==
    {e \in (Ids \cup {None}) \X (Ids \cup {None}) :
        /\ (e[1] = None \/ e[2] = None) => Shape \in OneSidedShapes
        /\ (e[1] # None /\ e[2] # None) => ColumnOf(e[1]) < ColumnOf(e[2])}

TotalFlux == SeqSum([f \in FluxIds |-> fluxes[f].flux_width])

\* lines 79-89: flux_width is the flux when one endpoint at least is given;
\* otherwise the attribute is never created
FluxWidth(flux, source_cluster, target_cluster) ==
    IF source_cluster # None \/ target_cluster # None THEN flux ELSE None

\* a registration that appends the flux twice
NewFluxAppendTwice(lists, c, f) ==
    IF c # None THEN [lists EXCEPT ![c] = Append(Append(@, f), f)] ELSE lists

\* lines 90-94: the flux is appended to the list of a given endpoint
NewFluxAppend(lists, c, f) ==
    IF c # None THEN [lists EXCEPT ![c] = Append(@, f)] ELSE lists

\* the fluxes of a diagram are created target by target and, for one
\* target, source by source, one flux for each pair of endpoints (the
\* order in which examples/stacked_clusters.py creates them)
InCreationOrder(source_cluster, target_cluster) ==
    IF fluxes = <<>> THEN TRUE
    ELSE LET last == fluxes[Len(fluxes)]
         IN  IF last.target_cluster = target_cluster
             THEN last.source_cluster < source_cluster
             ELSE last.target_cluster < target_cluster

NewFlux(flux, source_cluster, target_cluster) ==
    /\ pc = "build"
    /\ TotalFlux + flux <= MaxTotalFlux
    /\ InCreationOrder(source_cluster, target_cluster)
    /\ LET f == Len(fluxes) + 1
       IN  /\ fluxes' = Append(fluxes, [source_cluster |-> source_cluster,
                                        target_cluster |-> target_cluster,
                                        flux_width |->
                                            FluxWidth(flux, source_cluster,
                                                      target_cluster)])
           /\ out_fluxes' = NewFluxAppend(out_fluxes, source_cluster, f)
           /\ in_fluxes' = NewFluxAppend(in_fluxes, target_cluster, f)
           /\ in_loc' = Append(in_loc, "unset")
           /\ out_loc' = Append(out_loc, "unset")
           /\ band' = Append(band, [anchor_out |-> <<>>, top_out |-> <<>>,
                                    anchor_in |-> <<>>, top_in |-> <<>>])
           /\ flux_patches' = Append(flux_patches, <<>>)
    /\ UNCHANGED <<height, clusters, spacing, y_offset, y_fix, y, in_margin,
                   out_margin, pc, xi, round, idx, redistribute, cand, calls,
                   module, y_pos, y_min, y_max, in_,
                   width, x_anchor, x_pos, axes>>

(***************************************************************************)
(* AlluvialPlot._distribute_column                                         *)
(***************************************************************************)
\* displace when the loop reaches the k-th cluster of the column (doubled)
\* set_y_pos on every cluster of the column: set_in_out_anchors gives each
\* its in_ and out_
SetInOutAnchors(column) == [c \in Ids |-> in_[c] \/ c \in Range(column)]

RECURSIVE Displace(_, _, _)
Displace(column, k, s) ==
    IF k = 1 THEN 0
    ELSE Displace(column, k - 1, s) + 2 * height[column[k - 1]] + 2 * s

\* a stacking that shifts the clusters of the other columns along with the
\* column when it centres it
DistributeColumnShiftAll(yy, column, s) ==
    LET stacked == [c \in Ids |-> IF c \in Range(column)
                                  THEN Displace(column, IndexOf(column, c), s)
                                  ELSE yy[c]]
        low == stacked[column[1]]
        high == stacked[column[Len(column)]] + 2 * height[column[Len(column)]]
        cent_offset == low + (high - low) \div 2
    IN  [c \in Ids |-> stacked[c] - cent_offset]

\* a stacking centred between the bottoms of the first and the last cluster
DistributeColumnBottoms(yy, column, s) ==
    LET stacked == [c \in Ids |-> IF c \in Range(column)
                                  THEN Displace(column, IndexOf(column, c), s)
                                  ELSE yy[c]]
        low == stacked[column[1]]
        high == stacked[column[Len(column)]]
        cent_offset == low + (high - low) \div 2
    IN  [c \in Ids |-> IF c \in Range(column) THEN stacked[c] - cent_offset
                       ELSE yy[c]]

\* the y_pos of all clusters after _distribute_column on a non-empty column
DistributeColumn(yy, column, s) ==
    LET stacked == [c \in Ids |-> IF c \in Range(column)
                                  THEN Displace(column, IndexOf(column, c), s)
                                  ELSE yy[c]]
        low == stacked[column[1]]
        high == stacked[column[Len(column)]] + 2 * height[column[Len(column)]]
        cent_offset == low + (high - low) \div 2
    IN  [c \in Ids |-> IF c \in Range(column) THEN stacked[c] - cent_offset
                       ELSE yy[c]]

(***************************************************************************)
(* The position in __init__: <<pc, xi, round, idx>>.  The Enter operators  *)
(* give the next position at which __init__ does something, passing the    *)
(* loops whose range is empty.                                             *)
(***************************************************************************)
Goto(t) == /\ pc' = t[1]
           /\ xi' = t[2]
           /\ round' = t[3]
           /\ idx' = t[4]

NbrClusters(k) == Len(clusters[k])

\* get_patchcollection: the first cluster of column k or of a later column
RECURSIVE EnterPatch(_)
EnterPatch(k) ==
    IF k > Len(clusters) THEN <<"flux_patches", 0, 0, 0>>
    ELSE IF NbrClusters(k) = 0 THEN EnterPatch(k + 1)
    ELSE <<"patch", k, 0, 1>>

\* line 284: __init__ calls get_patchcollection
EnterCollect == <<"collect", 0, 0, 0>>

\* `if isinstance(self.y_fix, dict)`: the first override of fix, if any
EnterYFix(fix) == IF fix # <<>> THEN <<"y_fix", 0, 0, 1>> ELSE EnterCollect

\* the forward swap loops of column k or of a later column
RECURSIVE EnterForward(_)
EnterForward(k) ==
    IF k > Len(clusters) THEN EnterYFix(y_fix)
    ELSE IF NbrClusters(k) < 2 THEN EnterForward(k + 1)
    ELSE <<"forward", k, 0, 1>>

\* `for x_pos in self.x_positions: self._move_new_clusters(x_pos)`
EnterMoveNew(k) ==
    IF k > Len(clusters) THEN EnterForward(1) ELSE <<"move_new", k, 0, 0>>

\* `for x_pos in self.x_positions: self.distribute_clusters(x_pos)`;
\* distribute_clusters of plotting.py does nothing for a column without
\* clusters (`if nbr_clusters:`), distribute_nodes of alluvialdiagram.py
\* has no such test
RECURSIVE EnterDistribute(_, _)
EnterDistribute(m, k) ==
    IF k > Len(clusters) THEN EnterMoveNew(1)
    ELSE IF m = "plotting" /\ NbrClusters(k) = 0 THEN EnterDistribute(m, k + 1)
    ELSE <<"distribute", k, 0, 0>>

\* after the relaxation loop of column k: the backward swap loops
EnterBackward(k) ==
    IF NbrClusters(k) \div 2 >= 1 THEN <<"backward_up", k, 0, 1>>
    ELSE EnterDistribute(module, k + 1)

\* a loop nest that is left after its first round
NextTestOneRound(name, rounds, after) ==
    IF idx < NbrClusters(xi) - 1 THEN <<name, xi, round, idx + 1>>
    ELSE after

\* after one swap test of a loop nest `for _ in range(rounds): for i in
\* range(1, nbr_clusters)`: the next test, or `after` when the nest is over
NextTest(name, rounds, after) ==
    IF idx < NbrClusters(xi) - 1 THEN <<name, xi, round, idx + 1>>
    ELSE IF round + 1 < rounds THEN <<name, xi, round + 1, 1>>
    ELSE after

(***************************************************************************)
(* AlluvialPlot.__init__ up to the layout                                  *)
(***************************************************************************)
\* the labels a y_fix override may name: those of the clusters and one
\* that no cluster carries
Labels == {label(c) : c \in Ids} \cup {Len(height) + 1}

\* the y_fix dictionaries handed to the constructor
YFixChoices ==
    {<<>>} \cup
    IF Shape \in FixShapes
    THEN {<<[x |-> 1, st |-> {a, b}]>> : a, b \in Labels}
    ELSE {}

\* the modules whose AlluvialPlot is constructed and the y_pos handed to it
PlotChoices ==
    {<<"plotting", "overwrite">>}
    \cup (IF Shape \in KeepShapes
          THEN {<<"plotting", "keep">>, <<"plotting", "complement">>} ELSE {})
    \cup (IF Shape \in LegacyShapes
          THEN {<<"alluvialdiagram", "overwrite">>} ELSE {})

\* whether the call hands the constructor an axes object; diagrams of the
\* layouts in NoAxesShapes are also constructed from the clusters alone
AxesChoices == {TRUE} \cup (IF Shape \in NoAxesShapes THEN {FALSE} ELSE {})

\* the y_offset handed to the constructor (line 169; doubled); diagrams
\* of the layouts in OffsetShapes are also drawn with an offset other
\* than the default 0
YOffsetChoices ==
    {0} \cup (IF Shape \in OffsetShapes
              THEN {2 * o : o \in (-MaxYOffset)..MaxYOffset} ELSE {})

\* x_lim: plotting.py, lines 222-233, takes min(cluster_widths), a
\* ValueError when no column has a cluster; alluvialdiagram.py, lines
\* 119-127, takes the first node of the first and of the last column, an
\* IndexError when one of the two is empty
XLimRaises(m) ==
    IF m = "plotting" THEN \A k \in Columns : NbrClusters(k) = 0
    ELSE NbrClusters(1) = 0 \/ NbrClusters(Len(clusters)) = 0

\* `axes` is a positional parameter without default (plotting.py, lines
\* 150-154; alluvialdiagram.py, lines 12-16): a call without it raises
\* TypeError before the body of __init__ runs
NewPlot(fix, m, mode, ax, off) ==
    /\ pc = "build"
    /\ module' = m
    /\ y_pos' = mode
    /\ axes' = ax
    /\ IF ~ax
       THEN /\ Goto(<<"error", 0, 0, 0>>)
            /\ UNCHANGED <<y_fix, y_offset, x_pos, y_min, y_max>>
       ELSE /\ y_fix' = fix
            /\ y_offset' = off
            /\ x_pos' = SetColumnXPos(m)
            /\ IF XLimRaises(m)
               THEN /\ Goto(<<"error", 0, 0, 0>>)
                    /\ UNCHANGED <<y_min, y_max>>
               ELSE /\ y_min' = <<>>
                    /\ y_max' = <<>>
                    /\ Goto(IF mode = "overwrite" THEN EnterDistribute(m, 1)
                            ELSE EnterYFix(fix))
    /\ redistribute' = FALSE
    /\ UNCHANGED <<height, fluxes, clusters, spacing, y, in_fluxes,
                   out_fluxes, in_loc, out_loc, in_margin, out_margin, band,
                   cand, calls, in_,
                   width, x_anchor, flux_patches>>

(***************************************************************************)
(* AlluvialPlot.distribute_clusters                                        *)
(***************************************************************************)
\* an interleaving that does not turn its upper half round
InitialOrderUpward(column) ==
    LET n == Len(column)
        sorted == Sorted(column, height)
    IN  Reverse(SliceBackBy2(sorted)) \o SliceFromBy2(sorted, n % 2)

\* lines 334-337: sorted by height, the biggest heights in the middle
InitialOrder(column) ==
    LET n == Len(column)
        sorted == Sorted(column, height)
    IN  Reverse(SliceBackBy2(sorted)) \o Reverse(SliceFromBy2(sorted, n % 2))

DistributeStart ==
    /\ pc = "distribute"
    /\ LET column == InitialOrder(clusters[xi])
       IN  IF column = <<>>
           THEN \* _distribute_column raises IndexError: self.nodes[x_pos][0]
                /\ Goto(<<"error", xi, 0, 0>>)
                /\ UNCHANGED <<clusters, y, in_>>
           ELSE /\ clusters' = [clusters EXCEPT ![xi] = column]
                /\ y' = DistributeColumn(y, column, spacing)
                /\ in_' = SetInOutAnchors(column)
                /\ Goto(<<"relax", xi, 0, 0>>)
    /\ redistribute' = FALSE
    /\ UNCHANGED <<height, fluxes, spacing, y_offset, y_fix, in_fluxes,
                   out_fluxes, in_loc, out_loc, in_margin, out_margin, band,
                   cand, calls, module, y_pos, y_min, y_max,
                   width, x_anchor, x_pos, flux_patches, axes>>

\* lines 410-426, at the end of distribute_clusters: y_min and y_max are
\* widened to the column, stacked at yy, and twice the spacing around it
BoundsMin(yy, column) ==
    LET _min_y == Min({yy[c] : c \in Range(column)}) - 4 * spacing
    IN  IF y_min # <<>> THEN <<Min({y_min[1], _min_y})>> ELSE <<_min_y>>

BoundsMax(yy, column) ==
    LET _max_y == Max({yy[c] + 2 * height[c] : c \in Range(column)})
                  + 4 * spacing
    IN  IF y_max # <<>> THEN <<Max({y_max[1], _max_y})>> ELSE <<_max_y>>

\* the step that ends at position t is the last one of distribute_clusters
\* on column xi
LeavesColumn(t) == t[1] \notin {"relax", "backward_up", "backward_down", "error"}

SetBounds(t, yy, column) ==
    IF LeavesColumn(t)
    THEN /\ y_min' = BoundsMin(yy, column)
         /\ y_max' = BoundsMax(yy, column)
    ELSE UNCHANGED <<y_min, y_max>>

\* the in-fluxes of c that have a source, in list order (lines 350-353)
SourcedIn(c) ==
    SelectSeq(in_fluxes[c], LAMBDA f : fluxes[f].source_cluster # None)

\* the out-fluxes of c that have a target, in list order
TargetedOut(c) ==
    SelectSeq(out_fluxes[c], LAMBDA f : fluxes[f].target_cluster # None)

\* sum(weights)
Weights(fs) == SeqSum([i \in DOMAIN fs |-> flux_width(fs[i])])

\* the sum of the positions of the sources, every weight taken as 1
UnweightedSources(fs) ==
    SeqSum([i \in DOMAIN fs |-> mid_height(fluxes[fs[i]].source_cluster)])

\* sum([weights[i] * positions[i] ...]) with the positions of the sources
WeightedSources(fs) ==
    SeqSum([i \in DOMAIN fs |->
                flux_width(fs[i]) * mid_height(fluxes[fs[i]].source_cluster)])

\* the mid_height cluster c has after the loop over the column (lines 347-361)
RelaxCandidate(c) ==
    LET fs == SourcedIn(c)
    IN  IF Weights(fs) > 0 THEN <<WeightedSources(fs), Weights(fs)>>
        ELSE <<mid_height(c), 1>>

\* a re-sorting by rank that turns round the clusters of equal rank
RerankTiesReversed(column, old_mid_heights, new_mid) ==
    LET n == Len(column)
        sort_key == [i \in 1..n |-> bisect_left(old_mid_heights, new_mid[column[i]])]
        cs == Reverse(SortedReverse([i \in 1..n |-> i], sort_key))
    IN  [k \in 1..n |-> column[cs[k]]]

\* lines 363-379: the column re-sorted by the bisect_left rank of the new
\* mid_height among the old ones
Rerank(column, old_mid_heights, new_mid) ==
    LET n == Len(column)
        sort_key == [i \in 1..n |-> bisect_left(old_mid_heights, new_mid[column[i]])]
        cs == Sorted([i \in 1..n |-> i], sort_key)
    IN  [k \in 1..n |-> column[cs[k]]]

RelaxPass ==
    /\ pc = "relax"
    /\ LET column == clusters[xi]
           old_mid_heights == [i \in DOMAIN column |-> mid_height(column[i])]
           new_mid == [c \in Range(column) |-> RelaxCandidate(c)]
           moved == \E c \in Range(column) : Weights(SourcedIn(c)) > 0
           reranked == Rerank(column, old_mid_heights, new_mid)
       IN  /\ redistribute' = (redistribute \/ moved)
           /\ cand' = [c \in Ids |-> IF c \in Range(column) THEN new_mid[c]
                                     ELSE cand[c]]
           /\ IF redistribute'
              THEN /\ clusters' = [clusters EXCEPT ![xi] = reranked]
                   /\ y' = DistributeColumn(y, reranked, spacing)
                   /\ Goto(IF round + 1 < RedistributeVertically
                           THEN <<"relax", xi, round + 1, 0>>
                           ELSE EnterBackward(xi))
              ELSE /\ UNCHANGED <<clusters, y>>
                   /\ Goto(EnterBackward(xi))
    /\ SetBounds(<<pc', xi', round', idx'>>, y', clusters'[xi])
    /\ UNCHANGED <<height, fluxes, spacing, y_offset, y_fix, in_fluxes,
                   out_fluxes, in_loc, out_loc, in_margin, out_margin, band,
                   calls, module, y_pos, in_,
                   width, x_anchor, x_pos, flux_patches, axes>>

(***************************************************************************)
(* AlluvialPlot._swap_clusters                                             *)
(***************************************************************************)
\* the fluxes whose widths are the weights of cluster c (lines 474-493):
\* its in-fluxes with a source and/or its out-fluxes with a target
SwapFluxes(c, direction) ==
    (IF direction \in {"both", "backwards"} THEN SourcedIn(c) ELSE <<>>)
    \o (IF direction \in {"both", "forwards"} THEN TargetedOut(c) ELSE <<>>)

\* the cluster at the other end of flux f, seen from c
Counterpart(c, f) ==
    IF fluxes[f].target_cluster = c /\ fluxes[f].source_cluster # c
    THEN fluxes[f].source_cluster
    ELSE fluxes[f].target_cluster

\* sum([weights[i] * sqdiff[i] ...]) for cluster c placed at mid-height m
WeightedDiff(c, m, direction) ==
    LET fs == SwapFluxes(c, direction)
    IN  SeqSum([i \in DOMAIN fs |->
            flux_width(fs[i]) * Abs(m - mid_height(Counterpart(c, fs[i])))])

\* sum(weights) of cluster c, 1 for a cluster that gets no dictionary entry
Denominator(c, direction) ==
    LET w == Weights(SwapFluxes(c, direction))
    IN  IF w > 0 THEN w ELSE 1

\* sum(d.values()) of the dictionary of the per-cluster weighted means for
\* n1 at m1 and n2 at m2, times Denominator(n1) * Denominator(n2)
ScaledDeviation(n1, m1, n2, m2, direction) ==
    (IF Weights(SwapFluxes(n1, direction)) > 0
     THEN WeightedDiff(n1, m1, direction) * Denominator(n2, direction) ELSE 0)
    + (IF Weights(SwapFluxes(n2, direction)) > 0
       THEN WeightedDiff(n2, m2, direction) * Denominator(n1, direction) ELSE 0)

\* inv_mid_height (lines 501-505), doubled
InvMidHeight(n1, n2) ==
    [c \in {n1, n2} |->
        IF c = n1 THEN y[n2] + 2 * height[n2] + 2 * spacing + height[n1]
        ELSE y[n1] + height[n2]]

\* `assert n1.y_pos < n2.y_pos`
SwapAssertion(n1, n2) == y[n1] < y[n2]

\* the value _swap_clusters returns when its assertion holds
SwapClusters(n1, n2, direction) ==
    LET inv == InvMidHeight(n1, n2)
    IN  ScaledDeviation(n1, mid_height(n1), n2, mid_height(n2), direction)
        > ScaledDeviation(n1, inv[n1], n2, inv[n2], direction)

\* a caller that exchanges the list entries and leaves the positions
SwappedYListOnly(n1, n2) == y

\* a caller that moves n1 up by its own height instead of n2's
SwappedYOwnHeight(n1, n2) ==
    [y EXCEPT ![n2] = y[n1],
              ![n1] = y[n1] + 2 * height[n1] + 2 * spacing]

\* the caller's reaction to True: n2.set_y_pos(n1.y_pos), then
\* n1.set_y_pos(n2.y_pos + n2.height + spacing)
SwappedY(n1, n2) ==
    [y EXCEPT ![n2] = y[n1],
              ![n1] = y[n1] + 2 * height[n2] + 2 * spacing]

\* one iteration of a swap loop on the clusters at list indices lo, lo + 1
\* (1-based) of column xi, then on to position `next`
SwapStep(lo, direction, next) ==
    LET n1 == clusters[xi][lo]
        n2 == clusters[xi][lo + 1]
    IN  IF ~SwapAssertion(n1, n2)
        THEN /\ Goto(<<"error", xi, round, idx>>)
             /\ UNCHANGED <<clusters, y>>
        ELSE /\ Goto(next)
             /\ IF SwapClusters(n1, n2, direction)
                THEN /\ y' = SwappedY(n1, n2)
                     /\ clusters' = [clusters EXCEPT ![xi][lo] = n2,
                                                     ![xi][lo + 1] = n1]
                ELSE UNCHANGED <<clusters, y>>

SwapFrame == UNCHANGED <<height, fluxes, spacing, y_offset, y_fix, in_fluxes,
                         out_fluxes, in_loc, out_loc, in_margin, out_margin,
                         band, redistribute, cand, calls, module, y_pos,
                         in_,
                         width, x_anchor, x_pos, flux_patches, axes>>

\* lines 388-397: n1, n2 = clusters[i-1], clusters[i]
BackwardUp ==
    /\ pc = "backward_up"
    /\ SwapStep(idx, "backwards",
                NextTest("backward_up", NbrClusters(xi) \div 2,
                         <<"backward_down", xi, 0, 1>>))
    /\ SwapFrame
    /\ UNCHANGED <<y_min, y_max>>

\* lines 398-408: n1, n2 = clusters[nbr_clusters-i-1], clusters[nbr_clusters-i]
BackwardDown ==
    /\ pc = "backward_down"
    /\ SwapStep(NbrClusters(xi) - idx, "backwards",
                NextTest("backward_down", NbrClusters(xi) \div 2,
                         EnterDistribute(module, xi + 1)))
    /\ SetBounds(<<pc', xi', round', idx'>>, y', clusters'[xi])
    /\ SwapFrame

\* __init__, lines 242-255
Forward ==
    /\ pc = "forward"
    /\ SwapStep(NbrClusters(xi) - idx, "forwards",
                NextTest("forward", NbrClusters(xi), EnterForward(xi + 1)))
    /\ SwapFrame
    /\ UNCHANGED <<y_min, y_max>>

(***************************************************************************)
(* AlluvialPlot._move_new_clusters                                         *)
(***************************************************************************)
\* sum([_flux.flux_width for _flux in cluster.in_fluxes])
InFluxWidth(c) ==
    SeqSum([i \in DOMAIN in_fluxes[c] |-> flux_width(in_fluxes[c][i])])

\* the sum of the positions of the targets, every weight taken as 1
UnweightedTargets(fs) ==
    SeqSum([i \in DOMAIN fs |-> mid_height(fluxes[fs[i]].target_cluster)])

\* sum([weights[i] * positions[i] ...]) with the positions of the targets
WeightedTargets(fs) ==
    SeqSum([i \in DOMAIN fs |->
                flux_width(fs[i]) * mid_height(fluxes[fs[i]].target_cluster)])

\* whether lines 562-569 move cluster c
IsMovedNew(c) == InFluxWidth(c) = 0 /\ Weights(TargetedOut(c)) > 0

MoveCandidate(c) ==
    IF IsMovedNew(c)
    THEN <<WeightedTargets(TargetedOut(c)), Weights(TargetedOut(c))>>
    ELSE <<mid_height(c), 1>>

MoveNewClusters ==
    /\ pc = "move_new"
    /\ LET column == clusters[xi]
           old_mid_heights == [i \in DOMAIN column |-> mid_height(column[i])]
           new_mid == [c \in Range(column) |-> MoveCandidate(c)]
           _redistribute == \E c \in Range(column) : IsMovedNew(c)
           reranked == Rerank(column, old_mid_heights, new_mid)
       IN  /\ cand' = [c \in Ids |-> IF c \in Range(column) THEN new_mid[c]
                                     ELSE cand[c]]
           /\ IF _redistribute
              THEN /\ clusters' = [clusters EXCEPT ![xi] = reranked]
                   /\ y' = DistributeColumn(y, reranked, spacing)
              ELSE UNCHANGED <<clusters, y>>
    /\ Goto(EnterMoveNew(xi + 1))
    /\ UNCHANGED <<height, fluxes, spacing, y_offset, y_fix, in_fluxes,
                   out_fluxes, in_loc, out_loc, in_margin, out_margin, band,
                   redistribute, calls, module, y_pos, y_min, y_max, in_,
                   width, x_anchor, x_pos, flux_patches, axes>>

(***************************************************************************)
(* __init__, lines 259-276: the y_fix overrides                            *)
(***************************************************************************)
\* the two lowest clusters of the column, whatever their labels
FixIndicesLowest(column, st) == <<1, 2>>

\* the indices found, or the lowest cluster twice when they are not two
FixIndicesLenient(column, st) ==
    LET found == SelectSeq([i \in DOMAIN column |-> i],
                           LAMBDA i : label(column[i]) \in st)
    IN  IF Len(found) = 2 THEN found ELSE <<1, 1>>

\* the indices i (1-based) with clusters[x_pos][i].label in st, ascending
FixIndices(column, st) ==
    SelectSeq([i \in DOMAIN column |-> i], LAMBDA i : label(column[i]) \in st)

YFix ==
    /\ pc = "y_fix"
    /\ LET fix == y_fix[idx]
           column == clusters[fix.x]
           found == FixIndices(column, fix.st)
           next == IF idx < Len(y_fix) THEN <<"y_fix", 0, 0, idx + 1>>
                   ELSE EnterCollect
       IN  IF Len(found) # 2
           THEN \* `n1_idx, n2_idx = (...)` raises ValueError
                /\ Goto(<<"error", xi, round, idx>>)
                /\ UNCHANGED <<clusters, y, in_>>
           ELSE LET swapped == [column EXCEPT ![found[1]] = column[found[2]],
                                              ![found[2]] = column[found[1]]]
                IN  /\ clusters' = [clusters EXCEPT ![fix.x] = swapped]
                    /\ y' = DistributeColumn(y, swapped, spacing)
                    /\ in_' = SetInOutAnchors(swapped)
                    /\ Goto(next)
    /\ UNCHANGED <<height, fluxes, spacing, y_offset, y_fix, in_fluxes,
                   out_fluxes, in_loc, out_loc, in_margin, out_margin, band,
                   redistribute, cand, calls, module, y_pos, y_min, y_max,
                   width, x_anchor, x_pos, flux_patches, axes>>

(***************************************************************************)
(* Cluster.set_loc_out_fluxes, sort_in_fluxes, sort_out_fluxes             *)
(***************************************************************************)
\* a routing that sends a source level with its target the upper way
RoutingTieUp(yy, S, T) ==
    IF MidOf(yy, S) >= MidOf(yy, T)
    THEN IF MidOf(yy, S) >= EdgeOf(yy, T, "top")
         THEN <<"bottom", "top">>
         ELSE <<"top", "top">>
    ELSE IF MidOf(yy, S) <= EdgeOf(yy, T, "bottom")
         THEN <<"top", "bottom">>
         ELSE <<"bottom", "bottom">>

\* lines 163-184: <<out_loc, in_loc>> of a flux from S to T
Routing(yy, S, T) ==
    IF MidOf(yy, S) > MidOf(yy, T)
    THEN IF MidOf(yy, S) >= EdgeOf(yy, T, "top")
         THEN <<"bottom", "top">>
         ELSE <<"top", "top">>
    ELSE IF MidOf(yy, S) <= EdgeOf(yy, T, "bottom")
         THEN <<"top", "bottom">>
         ELSE <<"bottom", "bottom">>

\* out_flux.out_flux_vanish: kwargs.pop('out_flux_vanish', 'top')
out_flux_vanish(f) == "top"

\* the value line 188 leaves in out_flux.out_loc: the local out_loc, which
\* is still None for a flux without target (line 186 is overwritten)
OutLocSet(yy, c, f) ==
    IF fluxes[f].target_cluster # None
    THEN Routing(yy, c, fluxes[f].target_cluster)[1]
    ELSE "none"

\* the value line 187 leaves in out_flux.in_loc
InLocSet(yy, c, f) ==
    IF fluxes[f].target_cluster # None
    THEN Routing(yy, c, fluxes[f].target_cluster)[2]
    ELSE "none"

\* the sort key of flux f whose counterpart is cluster cp (or None)
CounterpartKey(yy, cp) ==
    IF cp # None THEN MidOf(yy, cp) ELSE 2 * NoCounterpartKey

\* a sort that puts the 'top' fluxes in ascending order as well
SortFluxesAscending(list, loc, key) ==
    LET _top_fluxes == SelectSeq(list, LAMBDA f : loc[f] = "top")
        _bottom_fluxes == SelectSeq(list, LAMBDA f : loc[f] = "bottom")
    IN  Sorted(_top_fluxes, key) \o Sorted(_bottom_fluxes, key)

\* sort_out_fluxes / sort_in_fluxes on `list`: the 'top' fluxes by
\* descending key, then the 'bottom' fluxes by ascending key
SortFluxes(list, loc, key) ==
    LET _top_fluxes == SelectSeq(list, LAMBDA f : loc[f] = "top")
        _bottom_fluxes == SelectSeq(list, LAMBDA f : loc[f] = "bottom")
    IN  SortedReverse(_top_fluxes, key) \o Sorted(_bottom_fluxes, key)

sort_out_fluxes(yy, list, loc) ==
    SortFluxes(list, loc,
               [f \in FluxIds |-> CounterpartKey(yy, fluxes[f].target_cluster)])

sort_in_fluxes(yy, list, loc) ==
    SortFluxes(list, loc,
               [f \in FluxIds |-> CounterpartKey(yy, fluxes[f].source_cluster)])

(***************************************************************************)
(* Cluster.set_anchor_in_fluxes / set_anchor_out_fluxes                    *)
(***************************************************************************)
\* a width that is positive on both edges
SignedWidthUp(f, loc) == 2 * flux_width(f)

\* out_width / in_width: the width, negative on the 'top' edge
SignedWidth(f, loc) ==
    IF loc = "bottom" THEN 2 * flux_width(f) ELSE - 2 * flux_width(f)

\* get_loc_out_flux / get_loc_in_flux: <<anchor, top>> for a flux of signed
\* width w on the edge at `edge` with margin m; `far` is the flux's loc at
\* its other end
GetLoc(edge, m, w, far) ==
    <<edge + m + (IF far = "bottom" THEN w ELSE 0),
      edge + m + (IF far = "top" THEN w ELSE 0)>>

\* set_anchor_out_fluxes from the k-th flux of `list` on: the margins and
\* the bands after the loop
RECURSIVE AnchorOut(_, _, _, _, _, _, _)
AnchorOut(yy, c, list, k, oloc, iloc, st) ==
    IF k > Len(list) THEN st
    ELSE LET f == list[k]
             w == SignedWidth(f, oloc[f])
             got == GetLoc(EdgeOf(yy, c, oloc[f]), st.margin[oloc[f]], w, iloc[f])
         IN  AnchorOut(yy, c, list, k + 1, oloc, iloc,
                 [margin |-> [st.margin EXCEPT ![oloc[f]] = @ + w],
                  band |-> [st.band EXCEPT ![f].anchor_out = <<got[1]>>,
                                           ![f].top_out = <<got[2]>>]])

RECURSIVE AnchorIn(_, _, _, _, _, _, _)
AnchorIn(yy, c, list, k, oloc, iloc, st) ==
    IF k > Len(list) THEN st
    ELSE LET f == list[k]
             w == SignedWidth(f, iloc[f])
             got == GetLoc(EdgeOf(yy, c, iloc[f]), st.margin[iloc[f]], w, oloc[f])
         IN  AnchorIn(yy, c, list, k + 1, oloc, iloc,
                 [margin |-> [st.margin EXCEPT ![iloc[f]] = @ + w],
                  band |-> [st.band EXCEPT ![f].anchor_in = <<got[1]>>,
                                           ![f].top_in = <<got[2]>>]])

(***************************************************************************)
(* AlluvialPlot.get_patchcollection                                        *)
(***************************************************************************)
GetPatchCollection ==
    /\ \/ pc = "collect"
       \/ pc = "done" /\ calls < MaxPatchCalls
    /\ calls' = calls + 1
    /\ Goto(EnterPatch(1))
    /\ UNCHANGED <<height, fluxes, clusters, spacing, y_offset, y_fix, y,
                   in_fluxes, out_fluxes, in_loc, out_loc, in_margin,
                   out_margin, band, redistribute, cand, module, y_pos,
                   y_min, y_max, in_,
                   width, x_anchor, x_pos, flux_patches, axes>>

\* lines 614-631: the body of the loop for one cluster
PatchCluster ==
    /\ pc = "patch"
    /\ LET c == clusters[xi][idx]
           y1 == [y EXCEPT ![c] = y[c] + y_offset]
           anchored == [in_ EXCEPT ![c] = TRUE]
           \* set_loc_out_fluxes subscripts target_cluster.in_: TypeError
           \* at the first out-flux whose target has in_ = None
           raising == {i \in DOMAIN out_fluxes[c] :
                          /\ fluxes[out_fluxes[c][i]].target_cluster # None
                          /\ ~anchored[fluxes[out_fluxes[c][i]].target_cluster]}
           reached == IF raising = {} THEN Len(out_fluxes[c])
                      ELSE Min(raising) - 1
           mine == {out_fluxes[c][i] : i \in 1..reached}
           oloc == [f \in FluxIds |-> IF f \in mine THEN OutLocSet(y1, c, f)
                                      ELSE out_loc[f]]
           iloc == [f \in FluxIds |-> IF f \in mine THEN InLocSet(y1, c, f)
                                      ELSE in_loc[f]]
           ins == sort_in_fluxes(y1, in_fluxes[c], iloc)
           outs == sort_out_fluxes(y1, out_fluxes[c], oloc)
           st1 == AnchorIn(y1, c, ins, 1, oloc, iloc,
                           [margin |-> in_margin[c], band |-> band])
           st2 == AnchorOut(y1, c, outs, 1, oloc, iloc,
                            [margin |-> out_margin[c], band |-> st1.band])
       IN  /\ y' = y1
           /\ in_' = anchored
           /\ out_loc' = oloc
           /\ in_loc' = iloc
           /\ IF \/ raising # {}
                 \/ \E f \in Range(in_fluxes[c]) : iloc[f] = "unset"
              THEN \* sort_in_fluxes raises AttributeError: no in_loc
                   /\ Goto(<<"error", xi, round, idx>>)
                   /\ UNCHANGED <<in_fluxes, out_fluxes, in_margin,
                                  out_margin, band>>
              ELSE /\ in_fluxes' = [in_fluxes EXCEPT ![c] = ins]
                   /\ out_fluxes' = [out_fluxes EXCEPT ![c] = outs]
                   /\ in_margin' = [in_margin EXCEPT ![c] = st1.margin]
                   /\ out_margin' = [out_margin EXCEPT ![c] = st2.margin]
                   /\ band' = st2.band
                   /\ Goto(IF idx < NbrClusters(xi)
                           THEN <<"patch", xi, 0, idx + 1>>
                           ELSE EnterPatch(xi + 1))
    /\ UNCHANGED <<height, fluxes, clusters, spacing, y_offset, y_fix,
                   redistribute, cand, calls, module, y_pos, y_min, y_max,
                   width, x_anchor, x_pos, flux_patches, axes>>

\* the fluxes get_patchcollection draws: the out_fluxes of all clusters
Drawn == UNION {Range(out_fluxes[c]) : c \in Ids}

\* Flux.get_patch reads out_loc and in_loc, then the four anchors; an
\* attribute that was never assigned raises AttributeError
GetPatchRaises(f) ==
    \/ out_loc[f] = "unset"
    \/ in_loc[f] = "unset"
    \/ out_loc[f] = "none" /\ in_loc[f] = "none"
    \/ \E a \in {"anchor_out", "top_out", "anchor_in", "top_in"} :
           band[f][a] = <<>>

\* the 13 vertices from the points below, in the order of fluxes.py,
\* lines 234-241; ao, to, ai, ti are the y of anchor_out, top_out,
\* anchor_in and top_in, xo and xi_ the x of the out and the in anchors
Contour(xo, xi_, ao, to, ai, ti, dist, inner_out, inner_in) ==
    << <<xo, ao>>,
       <<xo + dist, ao>>, <<xi_ - dist, ai>>, <<xi_, ai>>,
       <<xi_ + inner_in, ai>>, <<xi_ + inner_in, ti>>, <<xi_, ti>>,
       <<xi_ - dist, ti>>, <<xo + dist, to>>, <<xo, to>>,
       <<xo - inner_out, to>>, <<xo - inner_out, ao>>,
       <<xo, ao>> >>

\* a get_patch that offsets the inner points at the target by half the
\* width of the source
GetPatchSourceWidth(f) ==
    LET S == fluxes[f].source_cluster
        T == fluxes[f].target_cluster
        _dist == (2 * (LeftEdge(T) - RightEdge(S))) \div 3
    IN  Contour(RightEdge(S), LeftEdge(T), band[f].anchor_out[1],
                band[f].top_out[1], band[f].anchor_in[1], band[f].top_in[1],
                _dist, 3 * width[S], 3 * width[S])

\* Flux.get_patch, fluxes.py, lines 176-254, for a flux with out_loc and
\* in_loc: _dist is 2/3 of the gap between the out anchors of the source
\* and the in anchors of the target; the inner points lie half a cluster
\* width inside the clusters
GetPatch(f) ==
    LET S == fluxes[f].source_cluster
        T == fluxes[f].target_cluster
        _dist == (2 * (LeftEdge(T) - RightEdge(S))) \div 3
    IN  Contour(RightEdge(S), LeftEdge(T), band[f].anchor_out[1],
                band[f].top_out[1], band[f].anchor_in[1], band[f].top_in[1],
                _dist, 3 * width[S], 3 * width[T])

\* lines 632-648: the patches of the fluxes, then the PatchCollection
FluxPatches ==
    /\ pc = "flux_patches"
    /\ IF \E f \in Drawn : GetPatchRaises(f)
       THEN /\ Goto(<<"error", 0, 0, 0>>)
            /\ UNCHANGED flux_patches
       ELSE /\ Goto(<<"done", 0, 0, 0>>)
            /\ flux_patches' = [f \in FluxIds |-> IF f \in Drawn
                                                  THEN GetPatch(f) ELSE <<>>]
    /\ UNCHANGED <<height, fluxes, clusters, spacing, y_offset, y_fix, y,
                   in_fluxes, out_fluxes, in_loc, out_loc, in_margin,
                   out_margin, band, redistribute, cand, calls, module,
                   y_pos, y_min, y_max, in_,
                   width, x_anchor, x_pos, axes>>

(***************************************************************************)
(* The specification                                                       *)
(***************************************************************************)
\* the clusters of a diagram of the given shape, numbered column by column
ColumnsOf(shape) ==
    [k \in DOMAIN shape |->
        [i \in 1..shape[k] |-> SeqSum(SubSeq(shape, 1, k - 1)) + i]]

\* Cluster.__init__: width=1.0, x_anchor 'center'
DefaultWidth == 1

\* the state after the clusters of a diagram have been constructed, each
\* by Cluster(height, anchor=(0, 0))
InitDiagram(shape, h, s) ==
    /\ clusters = ColumnsOf(shape)
    /\ height = h
    /\ width = [c \in 1..SeqSum(shape) |-> DefaultWidth]
    /\ x_anchor = [c \in 1..SeqSum(shape) |-> "center"]
    /\ x_pos = [c \in 1..SeqSum(shape) |-> <<SetXPos(DefaultWidth, "center", 0)>>]
    /\ flux_patches = <<>>
    /\ axes = FALSE
    /\ fluxes = <<>>
    /\ spacing = s
    /\ y_offset = 0
    /\ y_fix = <<>>
    /\ y = [c \in 1..SeqSum(shape) |-> 0]
    /\ in_fluxes = [c \in 1..SeqSum(shape) |-> <<>>]
    /\ out_fluxes = [c \in 1..SeqSum(shape) |-> <<>>]
    /\ in_loc = <<>>
    /\ out_loc = <<>>
    /\ in_margin = [c \in 1..SeqSum(shape) |-> [top |-> 0, bottom |-> 0]]
    /\ out_margin = [c \in 1..SeqSum(shape) |-> [top |-> 0, bottom |-> 0]]
    /\ band = <<>>
    /\ pc = "build"
    /\ xi = 0
    /\ round = 0
    /\ idx = 0
    /\ redistribute = FALSE
    /\ cand = [c \in 1..SeqSum(shape) |-> <<0, 1>>]
    /\ calls = 0
    /\ module = ""
    /\ y_pos = ""
    /\ y_min = <<>>
    /\ y_max = <<>>
    /\ in_ = [c \in 1..SeqSum(shape) |-> FALSE]

\* diagrams of the layouts in Shapes
Init ==
    \E shape \in Shapes :
        \E h \in {h \in [1..SeqSum(shape) ->
                            (IF shape \in ZeroHeightShapes THEN 0 ELSE 1)
                                ..MaxTotalHeight] :
                      SeqSum(h) <= MaxTotalHeight} :
            \E s \in (IF shape \in DefaultSpacingShapes THEN {DefaultSpacing}
                      ELSE 1..MaxSpacing) :
                InitDiagram(shape, h, s)

Next ==
    \/ \E e \in Endpoints, w \in 1..MaxTotalFlux : NewFlux(w, e[1], e[2])
    \/ \E fix \in YFixChoices, p \in PlotChoices, ax \in AxesChoices,
          off \in YOffsetChoices :
           NewPlot(fix, p[1], p[2], ax, off)
    \/ DistributeStart
    \/ RelaxPass
    \/ BackwardUp
    \/ BackwardDown
    \/ MoveNewClusters
    \/ Forward
    \/ YFix
    \/ GetPatchCollection
    \/ PatchCluster
    \/ FluxPatches

Spec == Init /\ [][Next]_vars

(***************************************************************************)
(* A column on its own: up to MaxColumn clusters of height >= 0 and no     *)
(* fluxes, laid out with a spacing that may be zero or negative.           *)
(***************************************************************************)
InitColumn ==
    \E n \in 1..MaxColumn :
        \E h \in {h \in [1..n -> 0..MaxTotalHeight] :
                      SeqSum(h) <= MaxTotalHeight} :
            \E s \in (-1)..MaxSpacing :
                InitDiagram(<<n>>, h, s)

NextColumn ==
    \/ \E fix \in YFixChoices, p \in PlotChoices, ax \in AxesChoices,
          off \in YOffsetChoices :
           NewPlot(fix, p[1], p[2], ax, off)
    \/ DistributeStart
    \/ RelaxPass
    \/ BackwardUp
    \/ BackwardDown
    \/ MoveNewClusters
    \/ Forward
    \/ YFix
    \/ GetPatchCollection
    \/ PatchCluster
    \/ FluxPatches

SpecColumn == InitColumn /\ [][NextColumn]_vars

(***************************************************************************)
(* A fan-out: one source cluster in the first column and two target        *)
(* clusters in the second, each fed by one flux as wide as it is high; the *)
(* source is as high as both targets together.  The state is the one after *)
(* the three clusters and the two fluxes have been constructed.            *)
(***************************************************************************)
InitFanOut ==
    \E a, b \in 1..MaxFan :
        \E s \in 0..MaxSpacing, w \in [1..2 -> 1..MaxWidth] :
            /\ clusters = ColumnsOf(<<1, 2>>)
            /\ height = <<a + b, a, b>>
            /\ width = <<w[1], w[2], w[2]>>
            /\ x_anchor = <<"center", "center", "center">>
            /\ x_pos = [c \in 1..3 |-> <<SetXPos(width[c], "center", 0)>>]
            /\ flux_patches = <<<<>>, <<>>>>
            /\ axes = FALSE
            /\ fluxes = <<[source_cluster |-> 1, target_cluster |-> 2,
                           flux_width |-> a],
                          [source_cluster |-> 1, target_cluster |-> 3,
                           flux_width |-> b]>>
            /\ spacing = s
            /\ y_offset = 0
            /\ y_fix = <<>>
            /\ y = <<0, 0, 0>>
            /\ in_fluxes = <<<<>>, <<1>>, <<2>>>>
            /\ out_fluxes = <<<<1, 2>>, <<>>, <<>>>>
            /\ in_loc = <<"unset", "unset">>
            /\ out_loc = <<"unset", "unset">>
            /\ in_margin = [c \in 1..3 |-> [top |-> 0, bottom |-> 0]]
            /\ out_margin = [c \in 1..3 |-> [top |-> 0, bottom |-> 0]]
            /\ band = [f \in 1..2 |-> [anchor_out |-> <<>>, top_out |-> <<>>,
                                        anchor_in |-> <<>>, top_in |-> <<>>]]
            /\ pc = "build"
            /\ xi = 0
            /\ round = 0
            /\ idx = 0
            /\ redistribute = FALSE
            /\ cand = [c \in 1..3 |-> <<0, 1>>]
            /\ calls = 0
            /\ module = ""
            /\ y_pos = ""
            /\ y_min = <<>>
            /\ y_max = <<>>
            /\ in_ = [c \in 1..3 |-> FALSE]

NextFanOut ==
    \/ \E fix \in YFixChoices, p \in PlotChoices, ax \in AxesChoices,
          off \in YOffsetChoices :
           NewPlot(fix, p[1], p[2], ax, off)
    \/ DistributeStart
    \/ RelaxPass
    \/ BackwardUp
    \/ BackwardDown
    \/ MoveNewClusters
    \/ Forward
    \/ GetPatchCollection
    \/ PatchCluster
    \/ FluxPatches

SpecFanOut == InitFanOut /\ [][NextFanOut]_vars

(***************************************************************************)
(* Clusters on their own: a cluster is constructed with a height, a        *)
(* horizontal anchor position, a width and an x_anchor, and set_x_pos is   *)
(* called on it; no AlluvialPlot is constructed.                           *)
(***************************************************************************)
InitCluster == InitDiagram(<<>>, <<>>, DefaultSpacing)

\* the x_anchor values the documentation of Cluster names
XAnchors == {"left", "center", "right"}

\* Cluster(height_, anchor=(x, 0), width=width_, x_anchor=anchor): lines
\* 61-96; line 81 calls set_x_pos(x) and set_y_pos(0)
NewCluster(height_, x, width_, anchor) ==
    /\ pc = "build"
    /\ height = <<>>
    /\ height' = Append(height, height_)
    /\ width' = Append(width, width_)
    /\ x_anchor' = Append(x_anchor, anchor)
    /\ x_pos' = Append(x_pos, <<SetXPos(width_, anchor, x)>>)
    /\ y' = Append(y, 0)
    /\ in_fluxes' = Append(in_fluxes, <<>>)
    /\ out_fluxes' = Append(out_fluxes, <<>>)
    /\ in_margin' = Append(in_margin, [top |-> 0, bottom |-> 0])
    /\ out_margin' = Append(out_margin, [top |-> 0, bottom |-> 0])
    /\ in_' = Append(in_, FALSE)
    /\ cand' = Append(cand, <<0, 1>>)
    /\ UNCHANGED <<fluxes, clusters, spacing, y_offset, y_fix, in_loc,
                   out_loc, band, pc, xi, round, idx, redistribute, calls,
                   module, y_pos, y_min, y_max, flux_patches, axes>>

\* c.set_x_pos(x), lines 98-124; x is <<>> for None
ClusterSetXPos(c, x) ==
    /\ pc = "build"
    /\ c \in Ids
    /\ x_pos' = [x_pos EXCEPT ![c] =
                    IF x = <<>> THEN <<>>
                    ELSE <<SetXPos(width[c], x_anchor[c], x[1])>>]
    /\ UNCHANGED <<height, fluxes, clusters, spacing, y_offset, y_fix, y,
                   in_fluxes, out_fluxes, in_loc, out_loc, in_margin,
                   out_margin, band, pc, xi, round, idx, redistribute, cand,
                   calls, module, y_pos, y_min, y_max, in_, width, x_anchor,
                   flux_patches, axes>>

\* the horizontal positions handed to a cluster
XArgs == (-MaxAnchor)..MaxAnchor

NextCluster ==
    \/ \E h \in 0..MaxTotalHeight, x \in XArgs, w \in 1..MaxWidth,
          a \in XAnchors : NewCluster(h, x, w, a)
    \/ \E c \in Ids, x \in {<<>>} \cup {<<v>> : v \in XArgs} :
           ClusterSetXPos(c, x)

SpecCluster == InitCluster /\ [][NextCluster]_vars

(***************************************************************************)
(* Properties of the vertical layout                                       *)
(***************************************************************************)
\* the layout is under way or just over, column k has been stacked by
\* distribute_clusters and no exception has ended the constructor
Stacked(k) ==
    /\ y_pos = "overwrite"
    /\ pc \notin {"build", "error", "patch", "flux_patches", "done"}
    /\ pc = "distribute" => k < xi
    /\ pc \in {"relax", "backward_up", "backward_down"} => k <= xi

\* consecutive clusters of the list are exactly `spacing` apart
Contiguous(column) ==
    \A i \in 1..(Len(column) - 1) :
        y[column[i]] + 2 * height[column[i]] + 2 * spacing = y[column[i + 1]]

\* the vertical intervals of two different clusters of the list do not overlap
Disjoint(column) ==
    \A i, j \in DOMAIN column :
        i < j => y[column[i]] + 2 * height[column[i]] <= y[column[j]]

\* C1: with spacing > 0 and heights >= 0, at the end of every layout step
\* (initial stacking, relaxation pass, accepted backward or forward swap,
\* orphan pull-in, y_fix swap) consecutive clusters i, i+1 of every stacked
\* column satisfy y_pos[i] + height[i] + spacing = y_pos[i+1], and no two
\* clusters of a column overlap.
C1_NonOverlap ==
    \A k \in Columns :
        Stacked(k) => Contiguous(clusters[k]) /\ Disjoint(clusters[k])

\* a finished layout in which a column of three has its strictly tallest
\* cluster at the bottom, a place the initial order never gives it
C1_Witness ==
    /\ pc = "collect"
    /\ spacing > 0
    /\ \E k \in Columns :
           /\ Len(clusters[k]) = 3
           /\ height[clusters[k][1]] > height[clusters[k][2]]
           /\ height[clusters[k][1]] > height[clusters[k][3]]

\* the swap test a swap loop is about to make: <<n1, n2, direction>>
SwapTested ==
    LET lo == IF pc = "backward_up" THEN idx ELSE NbrClusters(xi) - idx
    IN  <<clusters[xi][lo], clusters[xi][lo + 1],
          IF pc = "forward" THEN "forwards" ELSE "backwards">>

\* a step of a swap loop in which the swap was accepted and applied
SwapApplied ==
    /\ pc \in {"backward_up", "backward_down", "forward"}
    /\ clusters' # clusters

\* C2: whenever _swap_clusters accepts a swap and the caller applies it, the
\* flux-weighted mean absolute deviation of the two clusters for the
\* direction considered, recomputed from the mid-heights the clusters have
\* after the swap, is strictly smaller than the deviation before the swap.
C2_SwapMonotonicity ==
    [][SwapApplied =>
        LET n1 == SwapTested[1]
            n2 == SwapTested[2]
            direction == SwapTested[3]
        IN  ScaledDeviation(n1, y'[n1] + height[n1], n2, y'[n2] + height[n2],
                            direction)
            < ScaledDeviation(n1, mid_height(n1), n2, mid_height(n2),
                              direction)]_vars

(***************************************************************************)
(* Properties of the port allocation                                       *)
(***************************************************************************)
\* the fluxes of cluster c on the edge `loc` of its `side` ("in" or "out"),
\* in the order of the cluster's list
EdgeFluxes(c, side, loc) ==
    IF side = "in"
    THEN SelectSeq(in_fluxes[c], LAMBDA f : in_loc[f] = loc)
    ELSE SelectSeq(out_fluxes[c], LAMBDA f : out_loc[f] = loc)

EdgeMargin(c, side, loc) ==
    IF side = "in" THEN in_margin[c][loc] ELSE out_margin[c][loc]

\* the two coordinates flux f has been given at its `side` end
BandEnds(f, side) ==
    IF side = "in" THEN band[f].anchor_in \o band[f].top_in
    ELSE band[f].anchor_out \o band[f].top_out

\* the band the k-th flux of the list should have on the edge: the widths
\* of the fluxes before it away from the block's corner, then its own
ExpectedBand(c, loc, fs, k) ==
    LET before == 2 * SeqSum([i \in 1..(k - 1) |-> flux_width(fs[i])])
        upto == before + 2 * flux_width(fs[k])
    IN  IF loc = "bottom" THEN {y[c] + before, y[c] + upto}
        ELSE {y[c] + 2 * height[c] - before, y[c] + 2 * height[c] - upto}

\* C3: after one port-allocation pass started from zero margins, on each of
\* the four edges of every cluster the fluxes assigned to the edge have, in
\* their sorted order, contiguous non-overlapping bands (bottom edges
\* stacking upward from the cluster's bottom, top edges downward from its
\* top), each as wide as the flux's flux_width, and the absolute value of
\* the edge's final margin is the sum of the widths of the fluxes on it.
C3_EdgeStacking ==
    (pc = "done" /\ calls = 1) =>
        \A c \in Ids, side \in {"in", "out"}, loc \in {"top", "bottom"} :
            LET fs == EdgeFluxes(c, side, loc)
            IN  /\ \A k \in DOMAIN fs :
                       /\ Len(BandEnds(fs[k], side)) = 2
                       /\ Range(BandEnds(fs[k], side))
                              = ExpectedBand(c, loc, fs, k)
                /\ Abs(EdgeMargin(c, side, loc))
                       = 2 * SeqSum([i \in DOMAIN fs |-> flux_width(fs[i])])

\* one pass is over and the top in-edge of a cluster carries two fluxes
C3_Witness ==
    /\ pc = "done"
    /\ calls = 1
    /\ \E c \in Ids : Len(EdgeFluxes(c, "in", "top")) = 2

\* the margins Cluster.__init__ gives a cluster
ZeroMargin == [top |-> 0, bottom |-> 0]

\* C4: margins are reset before each pass: a second port allocation on the
\* same clusters (a second get_patchcollection call) starts every cluster
\* from in_margin = out_margin = 0 on both edges and so gives every flux
\* the anchor/top coordinates the first pass gave it.
C4_MarginsReset ==
    [][(pc = "patch" /\ calls > 1) =>
        LET c == clusters[xi][idx]
        IN  /\ in_margin[c] = ZeroMargin
            /\ out_margin[c] = ZeroMargin
            /\ band' = band]_vars

\* the decision table: <<exit, enter>> for a source with mid-height ms and a
\* target with mid-height mt, top ttop and bottom tbottom
DecisionTable(ms, mt, ttop, tbottom) ==
    CASE ms > mt /\ ms >= ttop -> <<"bottom", "top">>
      [] ms > mt /\ ms < ttop -> <<"top", "top">>
      [] ms <= mt /\ ms <= tbottom -> <<"top", "bottom">>
      [] OTHER -> <<"bottom", "bottom">>

\* C5: set_loc_out_fluxes gives every flux with source S and target T the
\* (out_loc, in_loc) of the decision table, read at the positions the two
\* clusters have when S is processed; two clusters of the same positive
\* height with equal mid-heights (Scenario A: both of height 10) get
\* exit = bottom, enter = bottom.
C5_RoutingTable ==
    [][pc = "patch" =>
        LET S == clusters[xi][idx]
        IN  \A f \in Range(out_fluxes[S]) :
                fluxes[f].target_cluster # None =>
                    LET T == fluxes[f].target_cluster
                        ms == y'[S] + height[S]
                        mt == y'[T] + height[T]
                        got == <<out_loc'[f], in_loc'[f]>>
                    IN  /\ got = DecisionTable(ms, mt, y'[T] + 2 * height[T],
                                                y'[T])
                        /\ (height[S] = height[T] /\ height[S] > 0 /\ ms = mt)
                               => got = <<"bottom", "bottom">>]_vars

\* Scenario A after the first pass: one flux between two clusters of the
\* same positive height, each alone in its column and so at mid-height 0
C5_Witness ==
    /\ pc = "done"
    /\ Shape = <<1, 1>>
    /\ height[1] = height[2]
    /\ height[1] > 0
    /\ Len(fluxes) = 1
    /\ fluxes[1].source_cluster = 1
    /\ fluxes[1].target_cluster = 2
    /\ mid_height(1) = mid_height(2)
    /\ out_loc[1] = "bottom"
    /\ in_loc[1] = "bottom"

\* C6: a flux with a source but no target has, after set_loc_out_fluxes on
\* its source, the default exit edge out_flux_vanish ('top' unless
\* overridden) as its out_loc, and so is kept and stacked on that edge.
C6_VanishingExit ==
    [][pc = "patch" =>
        LET c == clusters[xi][idx]
        IN  \A f \in Range(out_fluxes[c]) :
                fluxes[f].target_cluster = None
                    => out_loc'[f] = out_flux_vanish(f)]_vars

\* the list of the fluxes with cluster c at the given end, as the
\* constructors of the fluxes left it: in the order of creation
Constructed(c, end) ==
    SelectSeq([f \in 1..Len(fluxes) |-> f],
              LAMBDA f : IF end = "target" THEN fluxes[f].target_cluster = c
                         ELSE fluxes[f].source_cluster = c)

\* C7: the layout neither destroys nor adds entities: after the complete
\* layout and port allocation every cluster's in_fluxes and out_fluxes are
\* permutations of the lists it had after construction, every flux is
\* still in the out_fluxes of its source and in the in_fluxes of its
\* target, and heights, flux widths and endpoints never change.
C7_NothingDestroyed ==
    /\ [](pc = "done" =>
            /\ \A c \in Ids :
                   /\ IsPermutation(in_fluxes[c], Constructed(c, "target"))
                   /\ IsPermutation(out_fluxes[c], Constructed(c, "source"))
            /\ \A f \in FluxIds :
                   /\ fluxes[f].source_cluster # None
                          => f \in Range(out_fluxes[fluxes[f].source_cluster])
                   /\ fluxes[f].target_cluster # None
                          => f \in Range(in_fluxes[fluxes[f].target_cluster]))
    /\ [][pc # "build" => height' = height /\ fluxes' = fluxes]_vars

(***************************************************************************)
(* Properties of the stacking of a column and of the relaxation            *)
(***************************************************************************)
\* C8: after _distribute_column has stacked a column (initially and at every
\* re-stack) the midpoint of the bottom of its lowest cluster, the first of
\* the list, and the top of its highest cluster, the last of the list, is
\* 0; with a spacing >= 0 these are the lowest bottom and the highest top
\* of the column; a column of one cluster has it at y_pos = -height/2 for
\* every spacing.
C8_Centering ==
    \A k \in Columns :
        (Stacked(k) /\ clusters[k] # <<>>) =>
            LET column == clusters[k]
                last == column[Len(column)]
            IN  /\ y[column[1]] + (y[last] + 2 * height[last]) = 0
                /\ spacing >= 0 =>
                       Min({y[c] : c \in Range(column)})
                       + Max({y[c] + 2 * height[c] : c \in Range(column)}) = 0
                /\ Len(column) = 1 => y[column[1]] = - height[column[1]]

\* a column of three clusters of different heights, stacked with spacing
\* 0 and stacked again by a y_fix override
C8_Witness ==
    /\ pc = "collect"
    /\ y_fix # <<>>
    /\ spacing = 0
    /\ Len(clusters[1]) = 3
    /\ Cardinality({height[c] : c \in Range(clusters[1])}) = 3

\* heights rise (not strictly) up to a cluster of maximal height and fall
\* (not strictly) from there on
Unimodal(column) ==
    \E m \in DOMAIN column :
        /\ \A i \in DOMAIN column : height[column[i]] <= height[column[m]]
        /\ \A i \in 1..(m - 1) : height[column[i]] <= height[column[i + 1]]
        /\ \A i \in m..(Len(column) - 1) :
               height[column[i]] >= height[column[i + 1]]

\* C9: the order distribute_clusters gives a column at its start is a
\* permutation of the column's clusters whose heights are non-decreasing
\* from the bottom up to a cluster of maximal height and non-increasing
\* from there to the top.
C9_InitialOrder ==
    [][pc = "distribute" =>
        /\ IsPermutation(clusters'[xi], clusters[xi])
        /\ Unimodal(clusters'[xi])]_vars

\* a column of four clusters of four different heights in its initial order
C9_Witness ==
    /\ pc = "relax"
    /\ Len(clusters[1]) = 4
    /\ Cardinality({height[c] : c \in Range(clusters[1])}) = 4

RECURSIVE SetSum(_, _)
SetSum(S, val) ==
    IF S = {} THEN 0
    ELSE LET e == CHOOSE e \in S : TRUE
         IN  val[e] + SetSum(S \ {e}, val)

\* C10: in each relaxation pass a cluster whose in-fluxes with a source
\* have a positive total flux_width gets as candidate mid-height the mean
\* of the mid-heights of those sources weighted by flux_width (fluxes
\* without source contribute nothing); any other cluster keeps its
\* mid-height as candidate.
C10_RelaxCandidate ==
    [][pc = "relax" =>
        \A c \in Range(clusters[xi]) :
            LET sourced == {f \in Range(in_fluxes[c]) :
                               fluxes[f].source_cluster # None}
                total == SetSum(sourced, [f \in FluxIds |-> flux_width(f)])
                weighted == SetSum(sourced,
                                [f \in FluxIds |->
                                    IF f \in sourced
                                    THEN flux_width(f)
                                         * mid_height(fluxes[f].source_cluster)
                                    ELSE 0])
            IN  IF total > 0
                THEN cand'[c][1] * total = weighted * cand'[c][2]
                ELSE cand'[c] = <<mid_height(c), 1>>]_vars

\* relaxation passes have run on a column in which a cluster has a
\* candidate that is a mean of more than one unit of flux and is not 0
C10_Witness ==
    /\ pc = "relax"
    /\ round >= 1
    /\ \E c \in Range(clusters[xi]) : cand[c][2] >= 2 /\ cand[c][1] # 0

(***************************************************************************)
(* Properties of the orphan pull-in                                        *)
(***************************************************************************)
\* consecutive clusters of the list are exactly `spacing` apart at yy
ContiguousAt(yy, column) ==
    \A i \in 1..(Len(column) - 1) :
        yy[column[i]] + 2 * height[column[i]] + 2 * spacing = yy[column[i + 1]]

\* the number of clusters of the column whose mid-height is below num/den
RankAmong(column, num, den) ==
    Cardinality({k \in DOMAIN column : mid_height(column[k]) * den < num})

\* C11: _move_new_clusters is applied exactly once per column; in it every
\* cluster with zero total flux_width of in-fluxes and a positive total
\* flux_width of out-fluxes with a target gets as candidate mid-height the
\* mean of its targets' mid-heights weighted by flux_width, no cluster with
\* a positive total flux_width of in-fluxes gets a new candidate, and the
\* column is then re-ranked by the candidates and re-stacked.
C11_OrphanPullIn ==
    [][pc = "move_new" =>
        LET column == clusters[xi]
            after == clusters'[xi]
            widths == [f \in FluxIds |-> flux_width(f)]
            pull == [f \in FluxIds |->
                        IF fluxes[f].target_cluster # None
                        THEN flux_width(f)
                             * mid_height(fluxes[f].target_cluster)
                        ELSE 0]
            incoming(c) == {f \in FluxIds : fluxes[f].target_cluster = c}
            targeted(c) == {f \in FluxIds : /\ fluxes[f].source_cluster = c
                                            /\ fluxes[f].target_cluster # None}
        IN  /\ \A c \in Range(column) :
                   /\ (/\ SetSum(incoming(c), widths) = 0
                       /\ SetSum(targeted(c), widths) > 0)
                          => cand'[c][1] * SetSum(targeted(c), widths)
                             = cand'[c][2] * SetSum(targeted(c), pull)
                   /\ SetSum(incoming(c), widths) > 0
                          => cand'[c] = <<mid_height(c), 1>>
            /\ IsPermutation(after, column)
            /\ \A i \in 1..(Len(after) - 1) :
                   RankAmong(column, cand'[after[i]][1], cand'[after[i]][2])
                   <= RankAmong(column, cand'[after[i + 1]][1],
                                cand'[after[i + 1]][2])
            /\ ContiguousAt(y', after)
            /\ after # <<>> => y'[after[1]] + y'[after[Len(after)]]
                               + 2 * height[after[Len(after)]] = 0
            /\ IF xi < Len(clusters) THEN pc' = "move_new" /\ xi' = xi + 1
               ELSE pc' # "move_new"]_vars

\* the orphan pull-in is over for a first column in which a cluster
\* without in-fluxes was pulled past another one, to the weighted mean of
\* two targets
C11_Witness ==
    /\ pc = "move_new"
    /\ xi = 2
    /\ \E c \in Range(clusters[1]) :
           /\ cand[c][2] = 2
           /\ in_fluxes[c] = <<>>
           /\ Len(clusters[1]) >= 2
           /\ \E i \in DOMAIN clusters[1] : clusters[1][i] = c /\ i # c

(***************************************************************************)
(* Properties of the order of the fluxes on an edge                        *)
(***************************************************************************)
\* list `after` holds the fluxes of list `before` that are routed to an
\* edge: those on 'top' first, by non-increasing key, then those on
\* 'bottom', by non-decreasing key, fluxes of equal key on one edge in the
\* order they have in `before`
OrderedEdges(before, after, loc, key) ==
    /\ Range(after) = {f \in Range(before) : loc[f] \in {"top", "bottom"}}
    /\ Cardinality(Range(after)) = Len(after)
    /\ \A i, j \in DOMAIN after :
           i < j =>
               LET f == after[i]
                   g == after[j]
               IN  /\ loc[f] = "bottom" => loc[g] = "bottom"
                   /\ (loc[f] = "top" /\ loc[g] = "top") => key[f] >= key[g]
                   /\ (loc[f] = "bottom" /\ loc[g] = "bottom")
                          => key[f] <= key[g]
                   /\ (loc[f] = loc[g] /\ key[f] = key[g])
                          => IndexOf(before, f) < IndexOf(before, g)

\* C12: after sort_out_fluxes (sort_in_fluxes) the cluster's out_fluxes
\* (in_fluxes) are all its fluxes routed to its 'top' edge in
\* non-increasing order of the mid-height of the target (source), then all
\* its fluxes routed to its 'bottom' edge in non-decreasing order of that
\* mid-height; fluxes with equal counterpart mid-height keep their
\* previous relative order.
C12_EdgeOrder ==
    [][(pc = "patch" /\ pc' # "error") =>
        LET c == clusters[xi][idx]
            target_mid == [f \in FluxIds |->
                              IF fluxes[f].target_cluster # None
                              THEN MidOf(y', fluxes[f].target_cluster)
                              ELSE 0]
            source_mid == [f \in FluxIds |->
                              IF fluxes[f].source_cluster # None
                              THEN MidOf(y', fluxes[f].source_cluster)
                              ELSE 0]
        IN  /\ OrderedEdges(out_fluxes[c], out_fluxes'[c], out_loc', target_mid)
            /\ OrderedEdges(in_fluxes[c], in_fluxes'[c], in_loc', source_mid)
            /\ \A f \in Range(out_fluxes'[c]) : fluxes[f].target_cluster # None
            /\ \A f \in Range(in_fluxes'[c]) : fluxes[f].source_cluster # None
       ]_vars

\* the first port allocation is over for a cluster with two fluxes on its
\* 'top' edge whose counterparts have different mid-heights
C12_Witness ==
    /\ pc = "done"
    /\ calls = 1
    /\ \E c \in Ids :
           \/ /\ Len(out_fluxes[c]) = 2
              /\ \A i \in 1..2 : out_loc[out_fluxes[c][i]] = "top"
              /\ mid_height(fluxes[out_fluxes[c][1]].target_cluster)
                 > mid_height(fluxes[out_fluxes[c][2]].target_cluster)
           \/ /\ Len(in_fluxes[c]) = 2
              /\ \A i \in 1..2 : in_loc[in_fluxes[c][i]] = "top"
              /\ mid_height(fluxes[in_fluxes[c][1]].source_cluster)
                 > mid_height(fluxes[in_fluxes[c][2]].source_cluster)

(***************************************************************************)
(* Properties of the constructors' handling of their arguments             *)
(***************************************************************************)
\* C13: a constructor called with y_pos 'keep' or 'complement' either
\* honours the mode or rejects it with an error: it never gets past the
\* layout branch with the vertical bounds y_min and y_max undefined.
C13_ModesHonoured ==
    (/\ y_pos \in {"keep", "complement"}
     /\ pc \in {"y_fix", "collect", "patch", "flux_patches", "done"})
        => y_min # <<>> /\ y_max # <<>>

\* C14: constructing a Flux with neither a source nor a target cluster is
\* rejected: no Flux with both endpoints absent ever exists.
C14_NoEndpointRejected ==
    \A f \in FluxIds :
        fluxes[f].source_cluster # None \/ fluxes[f].target_cluster # None

\* C15: a column without clusters is handled defensively: a layout step
\* (initial distribution, relaxation, backward swaps, orphan pull-in,
\* forward swaps) that comes to it raises nothing and changes neither a
\* position nor the bounds, and after the layout y_min and y_max are the
\* lowest bottom and the highest top of the clusters of the other columns,
\* twice the spacing away.
C15_EmptyColumn ==
    /\ [][(/\ pc \in {"distribute", "relax", "backward_up", "backward_down",
                      "move_new", "forward"}
           /\ clusters[xi] = <<>>)
             => /\ pc' # "error"
                /\ UNCHANGED <<clusters, y, y_min, y_max>>]_vars
    /\ []((/\ pc = "collect"
           /\ y_pos = "overwrite"
           /\ \E k \in Columns : clusters[k] = <<>>)
              => /\ y_min = <<Min({y[c] : c \in Ids}) - 4 * spacing>>
                 /\ y_max = <<Max({y[c] + 2 * height[c] : c \in Ids})
                              + 4 * spacing>>)

(***************************************************************************)
(* Properties of the y_fix overrides                                       *)
(***************************************************************************)
\* the clusters of the column that carry label l
Labelled(column, l) == {c \in Range(column) : label(c) = l}

\* C16: for a pair of labels in y_fix at a coordinate, each the label of
\* exactly one cluster of that column, the two clusters exchange their
\* indices in the column, every other cluster keeps its index, and the
\* column is stacked again, consecutive clusters `spacing` apart.
C16_ManualOverride ==
    [][pc = "y_fix" =>
        LET fix == y_fix[idx]
            column == clusters[fix.x]
            after == clusters'[fix.x]
        IN  (/\ Cardinality(fix.st) = 2
             /\ \A l \in fix.st : Cardinality(Labelled(column, l)) = 1)
                => /\ pc' # "error"
                   /\ Len(after) = Len(column)
                   /\ \A i \in DOMAIN column :
                          IF label(column[i]) \in fix.st
                          THEN /\ label(after[i]) \in fix.st
                               /\ after[i] # column[i]
                          ELSE after[i] = column[i]
                   /\ ContiguousAt(y', after)]_vars

\* an override has exchanged the lowest and the highest cluster of a column
\* of three
C16_Witness ==
    /\ pc = "collect"
    /\ y_fix # <<>>
    /\ Len(clusters[1]) = 3
    /\ y_fix[1].st = {label(clusters[1][1]), label(clusters[1][3])}

Occurrences(list, f) == Cardinality({i \in DOMAIN list : list[i] = f})

\* C18: after any sequence of Flux constructions every flux is exactly
\* once in the out_fluxes of its source_cluster and in no other cluster's
\* out_fluxes, exactly once in the in_fluxes of its target_cluster and in
\* no other cluster's in_fluxes; an absent endpoint registers the flux in
\* no list on that side.
C18_FluxRegistration ==
    pc = "build" =>
        \A f \in FluxIds, b \in Ids :
            /\ Occurrences(out_fluxes[b], f)
               = (IF fluxes[f].source_cluster = b THEN 1 ELSE 0)
            /\ Occurrences(in_fluxes[b], f)
               = (IF fluxes[f].target_cluster = b THEN 1 ELSE 0)

\* two fluxes have been constructed, one with both endpoints and one
\* without target
C18_Witness ==
    /\ pc = "build"
    /\ \E f, g \in FluxIds :
           /\ fluxes[f].source_cluster # None
           /\ fluxes[f].target_cluster # None
           /\ fluxes[g].source_cluster # None
           /\ fluxes[g].target_cluster = None

\* every flux has both endpoints, its source in a column before its target's
WellFormed ==
    \A f \in FluxIds :
        /\ fluxes[f].source_cluster # None
        /\ fluxes[f].target_cluster # None
        /\ ColumnOf(fluxes[f].source_cluster)
           < ColumnOf(fluxes[f].target_cluster)

\* C19: the construction of an AlluvialPlot of plotting.py with y_pos
\* 'overwrite' raises nothing for any diagram whose fluxes all have both
\* endpoints, the source in a column before the target's: in_loc and
\* out_loc of every flux of a cluster are assigned when its lists are
\* sorted, and the four anchors of every flux drawn are assigned when
\* get_patch reads them.
C19_EndToEnd ==
    /\ []((/\ WellFormed
           /\ module = "plotting"
           /\ y_pos = "overwrite"
           /\ y_fix = <<>>) => pc # "error")
    /\ [][(pc = "patch" /\ WellFormed /\ y_pos = "overwrite") =>
            LET c == clusters[xi][idx]
            IN  /\ \A f \in Range(in_fluxes[c]) : in_loc'[f] # "unset"
                /\ \A f \in Range(out_fluxes[c]) : out_loc'[f] # "unset"]_vars
    /\ []((pc = "flux_patches" /\ WellFormed /\ y_pos = "overwrite") =>
            \A f \in Drawn : ~GetPatchRaises(f))

(***************************************************************************)
(* Properties of the fan-out                                               *)
(***************************************************************************)
\* the relaxation loop of the second column, or the whole layout, is over
Relaxed ==
    \/ pc = "backward_up" /\ xi = 2 /\ round = 0 /\ idx = 1
    \/ pc = "collect"

\* the two targets lie on opposite sides of the mid-height of the source
Bracketed ==
    LET lower == clusters[2][1]
        upper == clusters[2][2]
        source == clusters[1][1]
    IN  mid_height(lower) < mid_height(source)
        /\ mid_height(source) < mid_height(upper)

\* the sum over the fluxes of flux_width * (mid-height of the target -
\* mid-height of the source), doubled: 0 when the flux-weighted mean of the
\* targets' mid-heights is the mid-height of the source
WeightedOffset ==
    SetSum(FluxIds,
           [f \in FluxIds |->
               flux_width(f) * (mid_height(fluxes[f].target_cluster)
                                - mid_height(fluxes[f].source_cluster))])

\* a source of height 10 and targets of heights 4 and 6 fed by fluxes of
\* widths 4 and 6
ScenarioB == height \in {<<10, 4, 6>>, <<10, 6, 4>>}

\* C20 as stated: in the fan-out of a source of height 10 into targets of
\* heights 4 and 6, after the relaxation the mid-heights of the targets
\* lie on opposite sides of the mid-height of the source and their
\* flux-weighted mean is the mid-height of the source.
C20_FanOutStated ==
    (Relaxed /\ ScenarioB) => Bracketed /\ WeightedOffset = 0

\* C20: in a fan-out, after the relaxation the mid-heights of the two
\* targets lie on opposite sides of the mid-height of the source, and their
\* flux-weighted mean differs from it by spacing * (height of the upper
\* target - height of the lower target) / (2 * total flux width): it is
\* the mid-height of the source only for spacing 0 or equal targets; with
\* heights 4 and 6 the target of height 6 is the lower one and the mean is
\* spacing / 10 below the source.
C20_FanOut ==
    Relaxed =>
        /\ Bracketed
        /\ WeightedOffset
           = spacing * (height[clusters[2][2]] - height[clusters[2][1]])
        /\ ScenarioB => /\ height[clusters[2][1]] > height[clusters[2][2]]
                        /\ 2 * WeightedOffset = - 4 * spacing

\* the layout of the fan-out of a source of height 10 into targets of
\* heights 4 and 6 is over, with the default spacing
C20_Witness ==
    /\ pc = "collect"
    /\ ScenarioB
    /\ spacing = DefaultSpacing
    /\ WeightedOffset # 0

(***************************************************************************)
(* Properties of the patches and of the horizontal positions               *)
(***************************************************************************)
\* the point p moved horizontally by dx
ShiftX(p, dx) == <<p[1] + dx, p[2]>>

\* C21: for a flux with both endpoints get_patch builds a closed path of 13
\* vertices: anchor_out, anchor_out + dist, anchor_in - dist, anchor_in,
\* anchor_in + target.width/2, top_in + target.width/2, top_in,
\* top_in - dist, top_out + dist, top_out, top_out - source.width/2,
\* anchor_out - source.width/2, anchor_out (shifts in x), where dist is 2/3
\* of (x of the target's left edge - x of the source's right edge) and the
\* out and in anchors lie on these two edges.
C21_RibbonContour ==
    pc = "done" =>
        \A f \in FluxIds :
            (fluxes[f].source_cluster # None /\ fluxes[f].target_cluster # None)
            => LET S == fluxes[f].source_cluster
                   T == fluxes[f].target_cluster
                   right == x_pos[S][1] + 6 * width[S]
                   left == x_pos[T][1]
                   anchor_out == <<right, band[f].anchor_out[1]>>
                   top_out == <<right, band[f].top_out[1]>>
                   anchor_in == <<left, band[f].anchor_in[1]>>
                   top_in == <<left, band[f].top_in[1]>>
                   v == flux_patches[f]
               IN  /\ Len(v) = 13
                   /\ \E dist \in (-4 * (Abs(left) + Abs(right)))
                                      ..(4 * (Abs(left) + Abs(right))) :
                          /\ 3 * dist = 2 * (left - right)
                          /\ v = << anchor_out,
                                    ShiftX(anchor_out, dist),
                                    ShiftX(anchor_in, -dist),
                                    anchor_in,
                                    ShiftX(anchor_in, 3 * width[T]),
                                    ShiftX(top_in, 3 * width[T]),
                                    top_in,
                                    ShiftX(top_in, -dist),
                                    ShiftX(top_out, dist),
                                    top_out,
                                    ShiftX(top_out, -3 * width[S]),
                                    ShiftX(anchor_out, -3 * width[S]),
                                    anchor_out >>
                   /\ v[13] = v[1]

\* a collection has been returned in which a flux joins a source and a
\* target of different widths, the two anchors of the flux at different
\* heights at either end
C21_Witness ==
    /\ pc = "done"
    /\ \E f \in FluxIds :
           /\ fluxes[f].source_cluster # None
           /\ fluxes[f].target_cluster # None
           /\ width[fluxes[f].source_cluster] # width[fluxes[f].target_cluster]
           /\ Len(flux_patches[f]) = 13
           /\ band[f].anchor_out # band[f].top_out
           /\ band[f].anchor_out # band[f].anchor_in

\* the left edge the documentation of x_anchor gives a cluster of width w
\* anchored at x (sixfold)
AnchoredLeftEdge(w, anchor, x) ==
    CASE anchor = "left" -> 6 * x
      [] anchor = "center" -> 6 * x - 3 * w
      [] anchor = "right" -> 6 * x - 6 * w

\* C22: after Cluster construction with horizontal anchor x, and after
\* set_x_pos(x), x_pos is the x of the cluster's left edge as x_anchor
\* determines it: x for 'left' whatever the width, x - width/2 for
\* 'center', x - width for 'right'.
C22_HorizontalAnchoring ==
    [][/\ \A h \in 0..MaxTotalHeight, x \in XArgs, w \in 1..MaxWidth,
            a \in XAnchors :
              NewCluster(h, x, w, a)
                  => x_pos'[Len(height')] = <<AnchoredLeftEdge(w, a, x)>>
       /\ \A c \in Ids, x \in XArgs :
              ClusterSetXPos(c, <<x>>)
                  => x_pos'[c]
                         = <<AnchoredLeftEdge(width[c], x_anchor[c], x)>>]_vars

\* a cluster wider than the default and anchored at its left corner stands
\* at the largest horizontal position
C22_Witness ==
    /\ pc = "build"
    /\ clusters = <<>>
    /\ \E c \in Ids :
           /\ x_anchor[c] = "left"
           /\ width[c] > DefaultWidth
           /\ x_pos[c] = <<6 * MaxAnchor>>

\* C23: the layout is separable from the drawing: an AlluvialPlot
\* constructed from the clusters alone, without an axes object, computes
\* its layout without error (and is drawn later by draw_on(axes)); so a
\* constructor called without axes never ends in an exception.
C23_LayoutWithoutAxes ==
    (module # "" /\ ~axes) => pc # "error"

(***************************************************************************)
(* Properties of the swap passes and of the order of the layout            *)
(***************************************************************************)
\* C24: the swap test scores the true swapped arrangement: whenever a swap
\* of the adjacent clusters n1 (below) and n2 (above) is accepted and
\* applied, the hypothetical mid-heights _swap_clusters used for the two
\* are the mid-heights they have after the swap, n2 at n1's old bottom and
\* n1 directly above it at n1.y_pos_old + n2.height + spacing.
C24_SwapEvaluation ==
    [][SwapApplied =>
        LET n1 == SwapTested[1]
            n2 == SwapTested[2]
            inv_mid_height == InvMidHeight(n1, n2)
        IN  /\ y'[n2] = y[n1]
            /\ y'[n1] = y[n1] + 2 * height[n2] + 2 * spacing
            /\ inv_mid_height[n2] = y'[n2] + height[n2]
            /\ inv_mid_height[n1] = y'[n1] + height[n1]]_vars

\* the clusters of the list have strictly ascending y_pos
Ascending(column) ==
    \A i, j \in DOMAIN column : i < j => y[column[i]] < y[column[j]]

\* C25: the order of a column's list is its vertical order: with spacing
\* > 0 and heights >= 0 the first argument of every call of _swap_clusters
\* lies strictly below the second, so `assert n1.y_pos < n2.y_pos` never
\* fails, and between two layout steps the clusters of every stacked
\* column are listed in strictly ascending y_pos.
C25_ListOrderIsVertical ==
    /\ pc \in {"backward_up", "backward_down", "forward"}
           => SwapAssertion(SwapTested[1], SwapTested[2])
    /\ \A k \in Columns : Stacked(k) => Ascending(clusters[k])

\* a forward swap test is about to be made in a column that holds a
\* cluster of height 0 and whose order is no longer the order of
\* construction
C25_Witness ==
    /\ pc = "forward"
    /\ spacing > 0
    /\ \E c \in Range(clusters[xi]) : height[c] = 0
    /\ clusters[xi] # ColumnsOf(Shape)[xi]

(***************************************************************************)
(* Properties of the bands along a cluster side                            *)
(***************************************************************************)
\* the fluxes of cluster B on its side: the outgoing, resp. incoming ones
SideFluxes(B, side) ==
    {f \in FluxIds : IF side = "out" THEN fluxes[f].source_cluster = B
                     ELSE fluxes[f].target_cluster = B}

\* the cluster at the other end of a flux of that side
OtherEnd(f, side) ==
    IF side = "out" THEN fluxes[f].target_cluster ELSE fluxes[f].source_cluster

\* all fluxes of the side have their counterparts in one column and
\* together they are no wider than B is high
OneColumnSide(B, side) ==
    /\ \A f \in SideFluxes(B, side) : OtherEnd(f, side) # None
    /\ \A f, g \in SideFluxes(B, side) :
           ColumnOf(OtherEnd(f, side)) = ColumnOf(OtherEnd(g, side))
    /\ SetSum(SideFluxes(B, side), [f \in FluxIds |-> flux_width(f)])
           <= height[B]

\* C26: no crossing along a cluster side: after port allocation, for a
\* cluster B whose fluxes on one side all have counterparts in a single
\* column and are together no wider than B is high, the bands of any two
\* of these fluxes are disjoint, lie within B's vertical extent and are
\* stacked in the vertical order of the mid-heights of their counterparts
\* (the flux of the higher counterpart has the higher band), also across
\* the 'top' and the 'bottom' group.
C26_NoCrossing ==
    pc = "done" =>
        \A B \in Ids, side \in {"in", "out"} :
            OneColumnSide(B, side) =>
                \A f, g \in SideFluxes(B, side) :
                    LET bf == Range(BandEnds(f, side))
                        bg == Range(BandEnds(g, side))
                    IN  /\ bf # {}
                        /\ Min(bf) >= y[B]
                        /\ Max(bf) <= y[B] + 2 * height[B]
                        /\ Max(bf) - Min(bf) = 2 * flux_width(f)
                        /\ f # g => (Max(bf) <= Min(bg) \/ Max(bg) <= Min(bf))
                        /\ mid_height(OtherEnd(f, side))
                               > mid_height(OtherEnd(g, side))
                           => Min(bf) >= Max(bg)

(***************************************************************************)
(* Properties of the re-ranking                                            *)
(***************************************************************************)
\* C27: every relaxation pass that moves a cluster, and the orphan pull-in,
\* leave the column as the previous list stably sorted by rank, the rank of
\* a cluster being the number of previous mid-heights below its candidate
\* (the bisect_left index in the ascending list): ranks never decrease
\* along the new list, clusters of equal rank keep their previous relative
\* order, the new list is a permutation of the previous one, and the
\* column is stacked contiguously.
C27_StableRerank ==
    [][((pc = "relax" /\ redistribute') \/ pc = "move_new") =>
        LET column == clusters[xi]
            after == clusters'[xi]
            rank(c) == RankAmong(column, cand'[c][1], cand'[c][2])
        IN  /\ IsPermutation(after, column)
            /\ \A i, j \in DOMAIN after :
                   i < j =>
                       \/ rank(after[i]) < rank(after[j])
                       \/ /\ rank(after[i]) = rank(after[j])
                          /\ IndexOf(column, after[i]) < IndexOf(column, after[j])
            /\ ContiguousAt(y', after)]_vars

\* a relaxation pass is over that moved a cluster of a column in which two
\* clusters have the same candidate, hence the same rank, and the cluster
\* with the smaller identifier is no longer below the other one
C27_Witness ==
    /\ pc = "relax"
    /\ round >= 1
    /\ redistribute
    /\ \E i, j \in DOMAIN clusters[xi] :
           /\ i < j
           /\ clusters[xi][i] > clusters[xi][j]
           /\ cand[clusters[xi][i]][1] * cand[clusters[xi][j]][2]
              = cand[clusters[xi][j]][1] * cand[clusters[xi][i]][2]

(***************************************************************************)
(* Properties of the order of the columns                                  *)
(***************************************************************************)
\* the steps of distribute_clusters
DistributeStage == {"distribute", "relax", "backward_up", "backward_down"}

\* the in-fluxes of c come from columns before the one of c
FedFromEarlier(c) ==
    /\ Weights(SourcedIn(c)) > 0
    /\ \A i \in DOMAIN SourcedIn(c) :
           ColumnOf(fluxes[SourcedIn(c)[i]].source_cluster) < ColumnOf(c)

\* C28: the columns are distributed in ascending order, each one once, and
\* the mid-heights of earlier columns that the relaxation of a column reads
\* are final for the distribution: no step of distribute_clusters on a
\* column changes the position of a cluster of an earlier column, so that
\* when the last column has been distributed (before the orphan pull-in,
\* the forward swaps and the manual overrides) the candidate of every
\* cluster fed from earlier columns is the flux-weighted mean of the
\* mid-heights its sources have then.
C28_ReadsFinalPositions ==
    [][(pc \in DistributeStage) =>
          (/\ \A k \in Columns :
                  k < xi => \A c \in Range(clusters[k]) : y'[c] = y[c]
           /\ pc' \in DistributeStage => xi' >= xi
           /\ pc' = "distribute" => xi' > xi
           /\ pc' = "move_new" =>
                  \A c \in Ids :
                      FedFromEarlier(c)' =>
                          cand'[c] = <<WeightedSources(SourcedIn(c)),
                                       Weights(SourcedIn(c))>>')]_vars

\* all columns are distributed, and a cluster of a column of several
\* clusters, which the backward swaps went through after the relaxation,
\* was relaxed to a mid-height other than 0 that it read from an earlier
\* column of several clusters
C28_Witness ==
    /\ pc = "move_new"
    /\ xi = 1
    /\ \E c \in Ids :
           /\ FedFromEarlier(c)
           /\ Len(clusters[ColumnOf(c)]) >= 2
           /\ cand[c][1] # 0
           /\ \E i \in DOMAIN SourcedIn(c) :
                  Len(clusters[ColumnOf(fluxes[SourcedIn(c)[i]].source_cluster)]) >= 2

(***************************************************************************)
(* Properties of the swap loops                                            *)
(***************************************************************************)
SwapStages == {"backward_up", "backward_down", "forward"}

\* the number of sweeps a swap stage has completed on column xi
StageRound ==
    IF pc = "backward_down" THEN NbrClusters(xi) \div 2 + round ELSE round

StageRounds ==
    IF pc = "forward" THEN NbrClusters(xi) ELSE NbrClusters(xi) \div 2

OffsetDone ==
    {d \in Ids : \/ ColumnOf(d) < xi
                 \/ ColumnOf(d) = xi /\ IndexOf(clusters[xi], d) < idx}

\* the positions the clusters had when the running get_patchcollection
\* was called
BeforeOffset == [d \in Ids |-> IF d \in OffsetDone THEN y[d] - y_offset
                               ELSE y[d]]

\* C30: get_patchcollection moves every cluster up by y_offset and gives
\* every flux with a target the out_loc and in_loc of the decision table
\* read at the positions the clusters have without the offset, the routing
\* of y_offset = 0.
C30_TranslationInvariance ==
    [][(pc = "patch" /\ pc' # "error") =>
          LET S == clusters[xi][idx]
          IN  /\ y'[S] = BeforeOffset[S] + y_offset
              /\ \A f \in Range(out_fluxes[S]) :
                     LET T == fluxes[f].target_cluster
                     IN  T # None =>
                             <<out_loc'[f], in_loc'[f]>>
                             = DecisionTable(MidOf(BeforeOffset, S),
                                             MidOf(BeforeOffset, T),
                                             EdgeOf(BeforeOffset, T, "top"),
                                             EdgeOf(BeforeOffset, T, "bottom"))]_vars

====
